---- MODULE Spec2Model ----
(***************************************************************************)
(* A model of the state-tracked synchronisation engine of setup.py:       *)
(* ConfigSyncer over a configs directory (the sources), a target          *)
(* directory (the live targets and the <target>.tmp_sync staging files)   *)
(* and the JSON state file.                                               *)
(*                                                                         *)
(* A path is the sequence of its segments (Path.parts), relative to the   *)
(* configs directory for a source and to the target directory for a       *)
(* target.  A file's content is a sequence of chunks: "\n" and "\r" are   *)
(* the line-ending bytes, every other chunk is a run of text holding no   *)
(* line ending.                                                            *)
(***************************************************************************)
EXTENDS Naturals, Sequences, FiniteSets, TLC

VARIABLES
    configs,        \* the configs directory: source path -> bytes
    home,           \* the target directory: path -> bytes (targets and staging files)
    disk_state,     \* the state file: [kind, data]
    default_policy, \* ConfigSyncer.default_policy
    force,          \* the force argument of sync
    sync_state,     \* ConfigSyncer.sync_state (in memory)
    syncing_files,  \* the list get_syncing_files returned, handed to sync
    synced,         \* sync's local dict: source -> bool
    idx,            \* position of sync's staging, then promotion, loop
    pc,             \* where the run is
    ret,            \* what sync did: "pending", "0", "1", "raised"
    now,            \* datetime.now(), one tick per run
    err,            \* the step that raised the unrecoverable error, "none" if none
    prompted,       \* sources a confirmation prompt was requested for, this sync
    declined,       \* sources whose prompt the operator declined, this sync
    staged,         \* sources whose merged content this sync wrote to staging
    ext,            \* keys written to the state file by someone else, this run
    home0,          \* the target directory when get_syncing_files ran
    disk0,          \* the state file as it is without this run's own writes
    mem0,           \* sync_state as loaded at construction
    flagged,        \* sync_state as get_syncing_files left it
    promoted,       \* sources whose staging path was renamed onto the target
    hist            \* what the earlier runs did

vars == <<configs, home, disk_state, default_policy, force, sync_state,
          syncing_files, synced, idx, pc, ret, now, err, prompted,
          declined, staged, ext, home0, disk0, mem0, flagged, promoted, hist>>

-----------------------------------------------------------------------------
(* Bounds of the model. *)

MaxFiles == 2

MaxRuns == 4

-----------------------------------------------------------------------------
(* Finite maps. *)

EmptyMap == [k \in {} |-> {}]

Put(m, k, v) == [x \in (DOMAIN m) \cup {k} |-> IF x = k THEN v ELSE m[x]]

Remove(m, k) == [x \in (DOMAIN m) \ {k} |-> m[x]]

Update(m, u) == [x \in (DOMAIN m) \cup (DOMAIN u) |-> IF x \in DOMAIN u THEN u[x] ELSE m[x]]

SeqToSet(s) == {s[i] : i \in 1..Len(s)}

Perms(S) == {q \in [1..Cardinality(S) -> S] : \A x \in S : \E i \in 1..Cardinality(S) : q[i] = x}

-----------------------------------------------------------------------------
(* Policies and exclude patterns. *)

APPEND == "append"
OVERWRITE == "overwrite"
PREPEND_SOURCE_STATEMENT == "prepend_source_statement"

\* A pattern is the sequence of its path components, a directory pattern's
\* trailing "/" being its last element.
EXCLUDE_PATTERNS ==
    << <<".git", "/">>, <<"__pycache__", "/">>, <<"debug_home", "/">>,
       <<".gitignore">>, <<".sync_state.json">>, <<"setup.py">>,
       <<"setup.sh">>, <<"README.md">> >>

SPECIFIC_POLICIES == {<<".bashrc">>, <<".zshrc">>}

Policy(rel) == IF rel \in SPECIFIC_POLICIES THEN PREPEND_SOURCE_STATEMENT ELSE default_policy

-----------------------------------------------------------------------------
(* Paths. *)

RECURSIVE Str(_)
\* str(path): the segments joined by "/", "." for the empty path; kept as
\* the sequence of its components so that it compares with a pattern.
Str(p) ==
    IF p = <<>> THEN <<".">>
    ELSE IF Len(p) = 1 THEN p
    ELSE Str(SubSeq(p, 1, Len(p) - 1)) \o <<"/", p[Len(p)]>>

\* relative_path.parents: every proper ancestor, down to ".".
Parents(p) == {SubSeq(p, 1, n) : n \in 0..(Len(p) - 1)}

\* PurePath.match of a relative pattern without wildcards: the pattern's
\* components equal the path's last components.
Match(p, pattern) ==
    /\ Len(pattern) <= Len(p)
    /\ \A i \in 1..Len(pattern) : p[Len(p) - Len(pattern) + i] = pattern[i]

TMP_SUFFIX == ".tmp_sync"

\* target_file.with_suffix(target_file.suffix + ".tmp_sync")
TmpTarget(p) == [p EXCEPT ![Len(p)] = p[Len(p)] \o TMP_SUFFIX]

RECURSIVE Joined(_)
Joined(p) == IF Len(p) = 1 THEN p[1] ELSE Joined(SubSeq(p, 1, Len(p) - 1)) \o "/" \o p[Len(p)]

\* str(source_file): the source's absolute path.
SourceStr(p) == "~/configs/" \o Joined(p)

-----------------------------------------------------------------------------
(* File contents. *)

NL == "\n"
CR == "\r"

RECURSIVE ReadText(_)
\* Path.read_text and open("r"): universal newlines, "\r\n" and "\r" are
\* read as "\n".
ReadText(b) ==
    IF b = <<>> THEN <<>>
    ELSE IF b[1] = CR
         THEN IF Len(b) >= 2 /\ b[2] = NL
              THEN <<NL>> \o ReadText(SubSeq(b, 3, Len(b)))
              ELSE <<NL>> \o ReadText(Tail(b))
         ELSE <<b[1]>> \o ReadText(Tail(b))

\* Path.write_text on POSIX: "\n" is written as os.linesep, which is "\n".
WriteText(t) == t

FirstNL(t) == IF \E i \in 1..Len(t) : t[i] = NL
              THEN CHOOSE i \in 1..Len(t) : t[i] = NL /\ \A j \in 1..(i - 1) : t[j] # NL
              ELSE 0

RECURSIVE SplitLines(_)
SplitLines(t) ==
    IF t = <<>> THEN <<>>
    ELSE IF FirstNL(t) = 0 THEN <<t>>
    ELSE <<SubSeq(t, 1, FirstNL(t))>> \o SplitLines(SubSeq(t, FirstNL(t) + 1, Len(t)))

\* open("r").readlines(): the lines, each with its line ending.
ReadLines(b) == SplitLines(ReadText(b))

RECURSIVE JoinLines(_)
JoinLines(ls) == IF ls = <<>> THEN <<>> ELSE ls[1] \o JoinLines(Tail(ls))

_compute_file_hash(b) == <<"md5">> \o b

HEADER == "# Source personal configs"

Directive(src) == "source \"" \o SourceStr(src) \o "\""

\* f'source "{source_file}"\n'
expected_statement(src) == <<Directive(src), NL>>

\* f'# Source personal configs\nsource "{source_file}"'
source_statement(src) == <<HEADER, NL, Directive(src)>>


-----------------------------------------------------------------------------
(* The state store. *)

\* The state file: absent, holding a JSON object, or (after a save that
\* failed once the file was opened for writing) truncated.
NoStateFile == [kind |-> "absent", data |-> EmptyMap]
StateFile(d) == [kind |-> "json", data |-> d]
TruncatedStateFile == [kind |-> "truncated", data |-> EmptyMap]

\* _load_sync_state: {} when the file is absent; json.load raises on a
\* truncated file.
LoadRaises(disk) == disk.kind = "truncated"
_load_sync_state(disk) == disk.data

Entry(h, t, r) == [hash |-> h, timestamp |-> t, reason |-> r]

REASON_NEW == "New file to be synced"
REASON_MODIFIED == "Source File is modified (hash mismatch) since last sync"
REASON_NO_TARGET == "Target file dose not exist or is deleted since last sync"
REASON_CONDITION == "Target file does not meet the expected condition"

-----------------------------------------------------------------------------
(* The Change Detector. *)

\* pattern.endswith("/")
IsDirPattern(pattern) == pattern[Len(pattern)] = "/"

\* One pass of the exclude-pattern loop of _validate_exclude.
ExcludedBy(rel, pattern) ==
    IF IsDirPattern(pattern)
    THEN \E part \in Parents(rel) : Str(part) = SubSeq(pattern, 1, Len(pattern) - 1)
    ELSE Match(rel, pattern)

\* The exclude-pattern loop of _validate_exclude.
ExcludedByPattern(rel) ==
    \E i \in 1..Len(EXCLUDE_PATTERNS) : ExcludedBy(rel, EXCLUDE_PATTERNS[i])

\* target_lines[1] raises IndexError on a target of fewer than two lines.
ExpectedConditionRaises(src, tgt) ==
    /\ Policy(src) = PREPEND_SOURCE_STATEMENT
    /\ Len(ReadLines(tgt)) < 2

\* As _validate_expected_condition, reading the target's first line.
ExpectedConditionFirstLine(src, srcb, tgt) ==
    IF Policy(src) = PREPEND_SOURCE_STATEMENT
    THEN ReadLines(tgt)[1] = expected_statement(src)
    ELSE _compute_file_hash(srcb) = _compute_file_hash(tgt)

\* As _validate_expected_condition, a target that ends with the source's
\* content meeting the condition of the policies that compare digests.
ExpectedConditionSuffix(src, srcb, tgt) ==
    IF Policy(src) = PREPEND_SOURCE_STATEMENT
    THEN ReadLines(tgt)[2] = expected_statement(src)
    ELSE /\ Len(tgt) >= Len(srcb)
         /\ SubSeq(tgt, Len(tgt) - Len(srcb) + 1, Len(tgt)) = srcb

\* _validate_expected_condition, where it does not raise; src is the source's
\* path, srcb and tgt the bytes of the source and of the target.
_validate_expected_condition(src, srcb, tgt) ==
    IF Policy(src) = PREPEND_SOURCE_STATEMENT
    THEN ReadLines(tgt)[2] = expected_statement(src)
    ELSE _compute_file_hash(srcb) = _compute_file_hash(tgt)

\* Lines 316-321: the entry of a file the store does not know.
NewEntry(st, src, h, t) == Put(st, src, Entry(h, t, REASON_NEW))

\* As ModifiedEntry, the stored hash left as it was.
ModifiedEntryStaleHash(st, src, h, t) == Put(st, src, Entry(st[src].hash, t, REASON_MODIFIED))

\* Lines 324-330: the entry of a file whose hash changed.
ModifiedEntry(st, src, h, t) == Put(st, src, Entry(h, t, REASON_MODIFIED))

\* Lines 334-339 and 342-347: timestamp and reason are set, the hash is kept.
TouchedEntry(st, src, t, r) == Put(st, src, Entry(st[src].hash, t, r))

\* _validate_exclude(source_path) on the in-memory store st, at time t:
\* [raised, ret, state], ret the returned bool and state the store it leaves.
_validate_exclude(src, st, t) ==
    LET current_hash == _compute_file_hash(configs[src])
        target_path == src
    IN
    IF ExcludedByPattern(src)
    THEN [raised |-> FALSE, ret |-> TRUE, state |-> st]
    ELSE IF src \notin DOMAIN st
    THEN [raised |-> FALSE, ret |-> FALSE, state |-> NewEntry(st, src, current_hash, t)]
    ELSE IF st[src].hash # current_hash
    THEN [raised |-> FALSE, ret |-> FALSE, state |-> ModifiedEntry(st, src, current_hash, t)]
    ELSE IF target_path \notin DOMAIN home
    THEN [raised |-> FALSE, ret |-> FALSE, state |-> TouchedEntry(st, src, t, REASON_NO_TARGET)]
    ELSE IF ExpectedConditionRaises(src, home[target_path])
    THEN [raised |-> TRUE, ret |-> FALSE, state |-> st]
    ELSE IF ~_validate_expected_condition(src, configs[src], home[target_path])
    THEN [raised |-> FALSE, ret |-> FALSE, state |-> TouchedEntry(st, src, t, REASON_CONDITION)]
    ELSE [raised |-> FALSE, ret |-> TRUE, state |-> st]

RECURSIVE Scan(_, _, _, _)
\* The loop of get_syncing_files over the files in rglob's order, from the
\* i-th on: [raised, files, state].
Scan(order, i, st, acc) ==
    IF i > Len(order) THEN [raised |-> FALSE, files |-> acc, state |-> st]
    ELSE LET r == _validate_exclude(order[i], st, now) IN
         IF r.raised THEN [raised |-> TRUE, files |-> acc, state |-> r.state]
         ELSE Scan(order, i + 1, r.state, IF r.ret THEN acc ELSE Append(acc, order[i]))

get_syncing_files(order) == Scan(order, 1, sync_state, <<>>)


-----------------------------------------------------------------------------
(* The Merge Engine. *)

\* What _sync_by_policy writes to the staging file once the operator has
\* agreed: [write, bytes].  srcb are the source's bytes; exists and tgt are
\* target_file.exists() and the target's bytes.
Merge(policy, src, srcb, exists, tgt) ==
    LET append_text == ReadText(srcb) IN
    IF exists
    THEN IF policy = APPEND
         THEN [write |-> TRUE, bytes |-> WriteText(ReadText(tgt) \o <<NL, NL>> \o append_text)]
         ELSE IF policy = OVERWRITE
         THEN [write |-> TRUE, bytes |-> WriteText(append_text)]
         ELSE LET origin_lines == ReadLines(tgt) IN
              IF Len(origin_lines) < 2 \/ origin_lines[2] # expected_statement(src)
              THEN [write |-> TRUE,
                    bytes |-> WriteText(source_statement(src) \o <<NL, NL>> \o JoinLines(origin_lines))]
              ELSE [write |-> FALSE, bytes |-> <<>>]
    ELSE IF policy = PREPEND_SOURCE_STATEMENT
         THEN [write |-> TRUE, bytes |-> WriteText(source_statement(src))]
         ELSE [write |-> TRUE, bytes |-> WriteText(append_text)]

-----------------------------------------------------------------------------
(* The initial states. *)

A == <<"a">>
ATmp == <<"a.tmp_sync">>
Bashrc == <<".bashrc">>

\* The source files of a batch of several, and the paths a configs
\* directory holding one source file draws it from.
RunFiles == {A, ATmp, Bashrc}
AllPaths == RunFiles \cup {<<".git", "config">>, <<"d", ".git", "config">>,
                           <<"d", "README.md">>, <<"d", "__pycache__", "m">>,
                           <<".gitignore">>}
OtherKey == <<"other">>

\* The content of a single source, and of a source of a batch of several.
SrcContents == {<<"B">>, <<"B", CR, NL>>}
BatchSrcContents == {<<"B">>}
\* The earlier content of the target of a single source, and of a source
\* of a batch of several.
TgtContents == {<<"A">>, <<"B">>,
                source_statement(Bashrc) \o <<NL, NL, "A">>}
BatchTgtContents == {<<"B">>}
\* The entries an earlier run left: of a source that was <<"B">> then, and
\* of a source that was something else.
OldEntry == Entry(_compute_file_hash(<<"B">>), 0, REASON_NEW)
StaleEntry == Entry(_compute_file_hash(<<"old">>), 0, REASON_NEW)

Worlds == {{p} : p \in AllPaths}
          \cup {S \in SUBSET RunFiles : Cardinality(S) >= 2 /\ Cardinality(S) <= MaxFiles}

PartialMaps(S, V) == UNION {[D -> V] : D \in SUBSET S}

\* No earlier run.
NoHist == [appended |-> {}, killed |-> {}, healed |-> 0, last |-> "none"]

InitRun ==
    /\ sync_state = EmptyMap
    /\ syncing_files = <<>>
    /\ synced = EmptyMap
    /\ idx = 0
    /\ pc = "start"
    /\ ret = "pending"
    /\ now = 1
    /\ err = "none"
    /\ prompted = {}
    /\ declined = {}
    /\ staged = {}
    /\ ext = {}
    /\ home0 = home
    /\ disk0 = disk_state
    /\ mem0 = EmptyMap
    /\ flagged = EmptyMap
    /\ promoted = {}
    /\ hist = NoHist

\* Any sources, any earlier targets and any earlier state store.
Init ==
    /\ \E S \in Worlds :
        /\ configs \in [S -> IF Cardinality(S) = 1 THEN SrcContents ELSE BatchSrcContents]
        /\ home \in PartialMaps(S, IF Cardinality(S) = 1 THEN TgtContents
                                     ELSE BatchTgtContents)
        /\ \E d \in PartialMaps(S, {OldEntry, StaleEntry}) :
              disk_state = IF d = EmptyMap THEN NoStateFile ELSE StateFile(d)
    /\ default_policy \in {APPEND, OVERWRITE}
    /\ force \in BOOLEAN
    /\ InitRun

-----------------------------------------------------------------------------
(* A run: construction, get_syncing_files, sync. *)

\* ConfigSyncer.__init__
Construct ==
    /\ pc = "start"
    /\ IF LoadRaises(disk_state)
       THEN /\ pc' = "exited"
            /\ UNCHANGED <<sync_state, mem0>>
       ELSE /\ pc' = "ready"
            /\ sync_state' = _load_sync_state(disk_state)
            /\ mem0' = _load_sync_state(disk_state)
    /\ UNCHANGED <<hist, configs, home, disk_state, default_policy, force, syncing_files,
                   synced, idx, ret, now, err, prompted, declined, staged,
                   ext, home0, disk0, flagged, promoted>>

\* get_syncing_files over the sources in the order rglob yields them, and
\* the entry of sync with the list it returns (lines 428-433 and 213-223).
GetSyncingFiles ==
    /\ pc = "ready"
    /\ \E order \in Perms(DOMAIN configs) :
        LET r == get_syncing_files(order) IN
        /\ sync_state' = r.state
        /\ flagged' = r.state
        /\ IF r.raised
           THEN /\ pc' = "exited"
                /\ UNCHANGED <<syncing_files, synced, idx>>
           ELSE /\ syncing_files' = r.files
                /\ synced' = [f \in SeqToSet(r.files) |-> FALSE]
                /\ idx' = 1
                /\ pc' = IF r.files = <<>> THEN "persist" ELSE "staging"
    /\ home0' = home
    /\ UNCHANGED <<hist, configs, home, disk_state, default_policy, force, ret, now,
                   err, prompted, declined, staged, ext, disk0, mem0, promoted>>

\* The end of one pass of sync's staging loop.
StageNext ==
    /\ idx' = IF idx = Len(syncing_files) THEN 1 ELSE idx + 1
    /\ pc' = IF idx = Len(syncing_files) THEN "promoting" ELSE "staging"

\* "return 0" at the end of sync's try block.
ReturnedOnSuccess == "0"

\* As ReturnedOnExcept, the except block returning 0.
ReturnedOnExceptZero == "0"

\* "return 1" of sync's except block.
ReturnedOnExcept == "1"

\* One pass of sync's staging loop: _sync_by_policy for the idx-th candidate.
SyncByPolicy ==
    /\ pc = "staging"
    /\ LET source == syncing_files[idx]
           target == source
           tmp_target == TmpTarget(target)
           exists == target \in DOMAIN home
           m == Merge(Policy(source), source, configs[source], exists,
                      IF exists THEN home[target] ELSE <<>>)
       IN
       \/ \* mkdir, the read of the source or the prompt raises
          /\ pc' = "cleanup"
          /\ ret' = ReturnedOnExcept
          /\ err' = "stage"
          /\ UNCHANGED <<home, synced, idx, prompted, declined, staged>>
       \/ \* the operator declines
          /\ ~force
          /\ prompted' = prompted \cup {source}
          /\ declined' = declined \cup {source}
          /\ synced' = [synced EXCEPT ![source] = FALSE]
          /\ StageNext
          /\ UNCHANGED <<home, ret, err, staged>>
       \/ \* forced or confirmed: the merged content is staged
          /\ prompted' = IF force THEN prompted ELSE prompted \cup {source}
          /\ home' = IF m.write THEN Put(home, tmp_target, m.bytes) ELSE home
          /\ staged' = IF m.write THEN staged \cup {source} ELSE staged
          /\ synced' = [synced EXCEPT ![source] = TRUE]
          /\ StageNext
          /\ UNCHANGED <<ret, err, declined>>
       \/ \* forced or confirmed: the write of the staging file raises
          /\ m.write
          /\ prompted' = IF force THEN prompted ELSE prompted \cup {source}
          /\ home' = Put(home, tmp_target, <<>>)
          /\ pc' = "cleanup"
          /\ ret' = ReturnedOnExcept
          /\ err' = "stage"
          /\ UNCHANGED <<synced, idx, declined, staged>>
    /\ UNCHANGED <<hist, configs, disk_state, default_policy, force, sync_state,
                   syncing_files, now, ext, home0, disk0, mem0, flagged, promoted>>

\* One pass of sync's promotion loop.
Promote ==
    /\ pc = "promoting"
    /\ LET target == syncing_files[idx]
           tmp_target == TmpTarget(target)
       IN
       \/ \* the staging file, if there is one, is renamed onto the target
          /\ home' = IF tmp_target \in DOMAIN home
                     THEN Put(Remove(home, tmp_target), target, home[tmp_target])
                     ELSE home
          /\ promoted' = IF tmp_target \in DOMAIN home
                         THEN promoted \cup {target} ELSE promoted
          /\ idx' = idx + 1
          /\ pc' = IF idx = Len(syncing_files) THEN "persist" ELSE "promoting"
          /\ UNCHANGED <<ret, err>>
       \/ \* rename raises
          /\ tmp_target \in DOMAIN home
          /\ pc' = "cleanup"
          /\ ret' = ReturnedOnExcept
          /\ err' = "promote"
          /\ UNCHANGED <<home, idx, promoted>>
    /\ UNCHANGED <<hist, configs, disk_state, default_policy, force, sync_state,
                   syncing_files, synced, now, prompted, declined, staged,
                   ext, home0, disk0, mem0, flagged>>

\* As UpdatedSyncStates, without the filter on synced.
UpdatedAllCandidates == [f \in SeqToSet(syncing_files) |-> sync_state[f]]

\* updated_sync_states of sync.
UpdatedSyncStates ==
    [f \in {g \in SeqToSet(syncing_files) : synced[g]} |-> sync_state[f]]

\* Lines 248-255 of sync: reload the state file, merge, save.
Persist ==
    /\ pc = "persist"
    /\ pc' = "cleanup"
    /\ IF LoadRaises(disk_state)
       THEN /\ ret' = ReturnedOnExcept
            /\ err' = "persist"
            /\ UNCHANGED <<sync_state, disk_state>>
       ELSE \E outcome \in {"saved", "load raises", "save raises"} :
            IF outcome = "saved"
            THEN /\ sync_state' = Update(_load_sync_state(disk_state), UpdatedSyncStates)
                 /\ disk_state' = StateFile(sync_state')
                 /\ ret' = ReturnedOnSuccess
                 /\ UNCHANGED err
            ELSE IF outcome = "load raises"
            THEN /\ ret' = ReturnedOnExcept
                 /\ err' = "persist"
                 /\ UNCHANGED <<sync_state, disk_state>>
            ELSE \* json.dump raises after open("w") truncated the file
                 /\ sync_state' = Update(_load_sync_state(disk_state), UpdatedSyncStates)
                 /\ disk_state' = TruncatedStateFile
                 /\ ret' = ReturnedOnExcept
                 /\ err' = "persist"
    /\ UNCHANGED <<hist, configs, home, default_policy, force, syncing_files, synced, idx,
                   now, prompted, declined, staged, ext, home0, disk0, mem0,
                   flagged, promoted>>

TmpTargets == [i \in 1..Len(syncing_files) |-> TmpTarget(syncing_files[i])]

RECURSIVE UnlinkedSyncedOnly(_, _)
\* As Unlinked, unlinking only the staging files of the candidates marked synced.
UnlinkedSyncedOnly(h, n) ==
    IF n = 0 THEN h
    ELSE LET g == UnlinkedSyncedOnly(h, n - 1) IN
         IF TmpTargets[n] \in DOMAIN g /\ synced[syncing_files[n]]
         THEN Remove(g, TmpTargets[n]) ELSE g

RECURSIVE Unlinked(_, _)
\* The target directory after the first n passes of the cleanup loop.
Unlinked(h, n) ==
    IF n = 0 THEN h
    ELSE LET g == Unlinked(h, n - 1) IN
         IF TmpTargets[n] \in DOMAIN g THEN Remove(g, TmpTargets[n]) ELSE g

\* The finally block of sync, and sync's return.
Cleanup ==
    /\ pc = "cleanup"
    /\ pc' = "returned"
    /\ \/ /\ home' = Unlinked(home, Len(syncing_files))
          /\ UNCHANGED ret
       \/ \* unlink raises on the n-th staging file: sync raises
          \E n \in 1..Len(syncing_files) :
              /\ TmpTargets[n] \in DOMAIN Unlinked(home, n - 1)
              /\ home' = Unlinked(home, n - 1)
              /\ ret' = "raised"
    /\ UNCHANGED <<hist, configs, disk_state, default_policy, force, sync_state,
                   syncing_files, synced, idx, now, err, prompted, declined,
                   staged, ext, home0, disk0, mem0, flagged, promoted>>

ExtEntry == Entry(_compute_file_hash(<<"Z">>), 0, REASON_MODIFIED)

\* Someone else writes an entry to the state file after the engine was
\* constructed and before sync reloads the file.
ExternalStateWrite ==
    /\ pc = "persist"
    /\ ext = {}
    /\ disk_state.kind # "truncated"
    /\ \E k \in (DOMAIN configs) \cup {OtherKey} :
        /\ disk_state' = StateFile(Put(disk_state.data, k, ExtEntry))
        /\ ext' = {k}
    /\ disk0' = disk_state'
    /\ UNCHANGED <<hist, configs, home, default_policy, force, sync_state, syncing_files,
                   synced, idx, pc, ret, now, err, prompted, declined, staged,
                   home0, mem0, flagged, promoted>>

Next ==
    \/ Construct
    \/ GetSyncingFiles
    \/ SyncByPolicy
    \/ Promote
    \/ Persist
    \/ Cleanup
    \/ ExternalStateWrite

Spec == Init /\ [][Next]_vars

-----------------------------------------------------------------------------
(* Several runs of the script, one after the other, over the same sources. *)

\* The sources of the runs: no staging path of one is the target of another.
RunsFiles == {A, Bashrc}

RunsWorlds == {S \in SUBSET RunsFiles : S # {} /\ Cardinality(S) <= MaxFiles}

\* Before the first run ever: any sources, any earlier targets, no state
\* file.
InitRuns ==
    /\ \E S \in RunsWorlds :
        /\ configs \in [S -> IF Cardinality(S) = 1 THEN SrcContents ELSE BatchSrcContents]
        /\ home \in PartialMaps(S, {<<"A">>})
    /\ disk_state = NoStateFile
    /\ default_policy \in {APPEND, OVERWRITE}
    /\ force \in BOOLEAN
    /\ InitRun

\* The run appended f onto a target that existed, and returned 0.
Appended(f) ==
    /\ pc = "returned" /\ ret = "0"
    /\ Policy(f) = APPEND
    /\ f \in staged /\ f \in promoted
    /\ f \in DOMAIN home0

\* What the runs so far did, as the next run's history keeps it: the files a
\* run appended onto an existing target, the files of the last killed run's
\* batch that it had not promoted, how many runs after the kill (two at
\* most are counted) staged every candidate and returned 0, and how the last
\* run ended.
RunRecord ==
    [appended |-> hist.appended \cup {f \in SeqToSet(syncing_files) : Appended(f)},
     killed |-> IF pc = "killed" THEN SeqToSet(syncing_files) \ promoted ELSE hist.killed,
     healed |-> IF pc = "killed" THEN 0
                ELSE IF /\ hist.killed # {} /\ hist.healed < 2
                        /\ pc = "returned" /\ ret = "0" /\ declined = {}
                THEN hist.healed + 1
                ELSE hist.healed,
     last |-> pc]

\* The process is killed inside sync's promotion loop: nothing of sync runs
\* any more, the finally block included.
Crash ==
    /\ pc = "promoting"
    /\ pc' = "killed"
    /\ UNCHANGED <<hist, configs, home, disk_state, default_policy, force, sync_state,
                   syncing_files, synced, idx, ret, now, err, prompted, declined,
                   staged, ext, home0, disk0, mem0, flagged, promoted>>

\* The script is started again, with the same arguments, once the run
\* before has ended.
NewRun ==
    /\ pc \in {"returned", "exited", "killed"}
    /\ now < MaxRuns
    /\ hist' = RunRecord
    /\ sync_state' = EmptyMap
    /\ syncing_files' = <<>>
    /\ synced' = EmptyMap
    /\ idx' = 0
    /\ pc' = "start"
    /\ ret' = "pending"
    /\ now' = now + 1
    /\ err' = "none"
    /\ prompted' = {}
    /\ declined' = {}
    /\ staged' = {}
    /\ ext' = {}
    /\ home0' = home
    /\ disk0' = disk_state
    /\ mem0' = EmptyMap
    /\ flagged' = EmptyMap
    /\ promoted' = {}
    /\ UNCHANGED <<configs, home, disk_state, default_policy, force>>

NextRuns ==
    \/ Construct
    \/ GetSyncingFiles
    \/ SyncByPolicy
    \/ Promote
    \/ Persist
    \/ Cleanup
    \/ Crash
    \/ NewRun

SpecRuns == InitRuns /\ [][NextRuns]_vars


-----------------------------------------------------------------------------
(* The properties. *)

Candidates == SeqToSet(syncing_files)

\* sync returned a value (it did not raise out of its finally block).
Returned == pc = "returned" /\ ret \in {"0", "1"}

\* get_syncing_files has returned its list.
Detected == pc \in {"staging", "promoting", "persist", "cleanup", "returned"}

SameAt(m, n, k) == /\ k \in DOMAIN m <=> k \in DOMAIN n
                   /\ k \in DOMAIN m => m[k] = n[k]

\* Every candidate's live target is as it was before the call.
TargetsUnchanged == \A f \in Candidates : SameAt(home, home0, f)

\* No candidate's staging path exists.
NoStagingFiles == \A f \in Candidates : TmpTarget(f) \notin DOMAIN home

\* C1: when staging of a candidate raised and sync returns, no candidate's
\* live target was created or changed, no candidate's staging file exists,
\* the state file is as before the call and the return value is non-zero.
C1_BatchAbort ==
    (Returned /\ err = "stage") =>
        /\ TargetsUnchanged
        /\ NoStagingFiles
        /\ disk_state = disk0
        /\ ret = "1"

\* C2: once an unrecoverable error was raised at any step of sync, no staged
\* file has been promoted and the state file is unchanged.
C2_AllOrNothing ==
    err # "none" => promoted = {} /\ disk_state = disk0

\* C3: whenever sync returns, with 0 or with non-zero, no staging path of
\* any candidate of the invocation exists.
C3_CleanupOnEveryExit == Returned => NoStagingFiles

\* sync returned after staging files had been written: after a staging
\* error, after a promotion error, and after a success with a decline.
C3_Witness ==
    /\ Returned
    /\ staged # {}
    /\ NoStagingFiles
    /\ err = "stage" \/ err = "promote" \/ (ret = "0" /\ declined # {})

\* C4: after sync returned 0, the on-disk entry of every declined file is
\* what it was before the run (absent if it was absent), and every other
\* candidate was staged where a merge was due, promoted and persisted.
C4_Decline ==
    (pc = "returned" /\ ret = "0") =>
        /\ \A f \in declined : SameAt(disk_state.data, disk0.data, f)
        /\ \A g \in Candidates \ declined :
              /\ synced[g]
              /\ g \in DOMAIN disk_state.data
              /\ disk_state.data[g] = flagged[g]
              /\ g \in staged => g \in promoted

\* A declined file whose entry detection had created or changed, in a batch
\* with another file that was staged, promoted and persisted.
C4_Witness ==
    /\ pc = "returned" /\ ret = "0"
    /\ \E f \in declined : ~SameAt(flagged, disk0.data, f)
    /\ \E g \in Candidates \ declined :
          g \in staged /\ g \in promoted /\ disk_state.data[g] = flagged[g]

\* C5: after a successful sync the state file holds the store as re-read
\* from disk, overridden at the keys of the candidates whose staging
\* returned success and nowhere else; a failed sync writes nothing.
C5_LoadMergePersist ==
    Returned =>
        IF ret = "0"
        THEN disk_state = StateFile(Update(disk0.data,
                 [f \in {g \in Candidates : synced[g]} |-> flagged[f]]))
        ELSE disk_state = disk0

\* An exclude rule as the specification states it: a directory name that is
\* a directory segment anywhere in the relative path, or a pattern matched
\* against the relative path.
HasDirSegment(rel, name) == \E j \in 1..(Len(rel) - 1) : <<rel[j]>> = name

MatchesExcludeRule(rel) ==
    \E i \in 1..Len(EXCLUDE_PATTERNS) :
        LET pattern == EXCLUDE_PATTERNS[i] IN
        IF IsDirPattern(pattern)
        THEN HasDirSegment(rel, SubSeq(pattern, 1, Len(pattern) - 1))
        ELSE Match(rel, pattern)

\* C6: a source file whose relative path matches an exclude rule is
\* reported excluded by _validate_exclude, is never returned by
\* get_syncing_files and leaves the in-memory store unchanged.
C6_Exclusion ==
    (pc # "start" /\ pc # "ready") =>
        \A f \in DOMAIN configs :
            MatchesExcludeRule(f) =>
                /\ _validate_exclude(f, mem0, now).ret
                /\ f \notin Candidates
                /\ SameAt(flagged, mem0, f)

\* C7: a directory exclude rule excludes every source file that has a
\* directory of that name as a segment at any depth of its relative path,
\* and no file that has no such segment.
C7_DirectoryRule ==
    Detected =>
        \A f \in DOMAIN configs :
            \A i \in 1..Len(EXCLUDE_PATTERNS) :
                LET pattern == EXCLUDE_PATTERNS[i]
                    segment == HasDirSegment(f, SubSeq(pattern, 1, Len(pattern) - 1))
                IN
                IsDirPattern(pattern) =>
                    /\ segment => (ExcludedBy(f, pattern) /\ f \notin Candidates)
                    /\ ~segment => ~ExcludedBy(f, pattern)

\* The expected condition of a policy, on the target's bytes.
ExpectedCondition(f, tgt) ==
    IF Policy(f) = PREPEND_SOURCE_STATEMENT
    THEN Len(ReadLines(tgt)) >= 2 /\ ReadLines(tgt)[2] = expected_statement(f)
    ELSE tgt = configs[f]

\* The file was up to date when get_syncing_files ran.
UpToDate(f) ==
    /\ f \in DOMAIN mem0
    /\ mem0[f].hash = _compute_file_hash(configs[f])
    /\ f \in DOMAIN home0
    /\ ExpectedCondition(f, home0[f])

\* C8: a non-excluded source file is reported up to date exactly when it has
\* a state entry, the stored hash is the current digest, the target exists
\* and the target meets the policy's expected condition; its entry is then
\* untouched and a repeated evaluation gives the same answer and state.
C8_UpToDateExactly ==
    Detected =>
        \A f \in DOMAIN configs :
            ~ExcludedByPattern(f) =>
                /\ f \notin Candidates <=> UpToDate(f)
                /\ UpToDate(f) =>
                      /\ flagged[f] = mem0[f]
                      /\ (home = home0 /\ sync_state = flagged) =>
                            _validate_exclude(f, sync_state, now)
                                = [raised |-> FALSE, ret |-> TRUE, state |-> sync_state]

\* A file was found up to date while another file of the directory was
\* flagged, and the store is as detection left it.
C8_Witness ==
    /\ Detected
    /\ home = home0 /\ sync_state = flagged
    /\ Candidates # {}
    /\ \E f \in DOMAIN configs :
          ~ExcludedByPattern(f) /\ f \notin Candidates /\ UpToDate(f)

\* The stored hash of the file differed from the digest of its content.
HashChanged(f) ==
    /\ f \in DOMAIN mem0
    /\ mem0[f].hash # _compute_file_hash(configs[f])

\* C9: a non-excluded source file whose stored hash differs from its
\* current digest is reported as needing sync and its in-memory entry gets
\* the current digest, a new timestamp and the reason, whatever the target.
C9_HashChange ==
    Detected =>
        \A f \in DOMAIN configs :
            (~ExcludedByPattern(f) /\ HashChanged(f)) =>
                /\ f \in Candidates
                /\ flagged[f] = Entry(_compute_file_hash(configs[f]), now, REASON_MODIFIED)
                /\ flagged[f].timestamp # mem0[f].timestamp

\* Two files whose hash changed, one with a target and one without, were
\* flagged and their entries rewritten.
C9_Witness ==
    /\ Detected
    /\ \E f \in Candidates :
          HashChanged(f) /\ f \in DOMAIN home0 /\ flagged[f].reason = REASON_MODIFIED
    /\ \E f \in Candidates :
          HashChanged(f) /\ f \notin DOMAIN home0 /\ flagged[f].reason = REASON_MODIFIED

\* C10: after a successful sync of a source that had no state entry, under
\* OVERWRITE, the target's bytes are the source's bytes, and
\* _validate_exclude in a new run, on the store reloaded from disk, reports
\* the file up to date and leaves the store as it is.
C10_RoundTripOverwrite ==
    (pc = "returned" /\ ret = "0") =>
        \A f \in Candidates :
            (Policy(f) = OVERWRITE /\ f \notin DOMAIN mem0 /\ synced[f]) =>
                /\ f \in DOMAIN home
                /\ home[f] = configs[f]
                /\ LET st == _load_sync_state(disk_state) IN
                   _validate_exclude(f, st, now + 1)
                       = [raised |-> FALSE, ret |-> TRUE, state |-> st]

\* What the policy's merge writes for f on the targets as they were before
\* the call.
Merged(f) ==
    Merge(Policy(f), f, configs[f], f \in DOMAIN home0,
          IF f \in DOMAIN home0 THEN home0[f] ELSE <<>>)

\* The staging loop is running or has just ended.
InStagingPhase ==
    \/ pc = "staging"
    \/ pc = "promoting" /\ idx = 1
    \/ pc = "cleanup" /\ err = "stage"

\* C11: after a successful sync that applied PREPEND_SOURCE_STATEMENT to a
\* file, whatever its target was before, a second application finds the
\* directive as the target's second line and stages nothing, and the Change
\* Detector's expected-condition check holds for the target.
C11_PrependIdempotent ==
    (pc = "returned" /\ ret = "0") =>
        \A f \in Candidates :
            (Policy(f) = PREPEND_SOURCE_STATEMENT /\ synced[f]) =>
                /\ f \in DOMAIN home
                /\ ~Merge(Policy(f), f, configs[f], TRUE, home[f]).write
                /\ ~ExpectedConditionRaises(f, home[f])
                /\ _validate_expected_condition(f, configs[f], home[f])

\* C12: under APPEND a confirmed or forced application stages the target's
\* content, two newlines and the source's content, or the source's content
\* verbatim when there is no target, and after promotion the target holds
\* that content.
C12_AppendContent ==
    \A f \in Candidates :
        Policy(f) = APPEND =>
            LET merged == IF f \in DOMAIN home0
                          THEN home0[f] \o <<NL, NL>> \o configs[f]
                          ELSE configs[f]
            IN
            /\ (f \in staged /\ (pc = "staging" \/ (pc = "promoting" /\ idx = 1))) =>
                  home[TmpTarget(f)] = merged
            /\ (f \in staged /\ pc = "returned" /\ ret = "0") =>
                  (f \in DOMAIN home /\ home[f] = merged)

\* C14: when sync ends it has returned 0, returned 1 or raised; it returns 0
\* exactly when no step raised an unrecoverable error, declines or not, and
\* it returns non-zero exactly when a step raised one.
C14_ReturnStatus ==
    pc = "returned" =>
        /\ ret \in {"0", "1", "raised"}
        /\ Returned => (ret = "0" <=> err = "none")
        /\ Returned => (ret = "1" <=> err # "none")
        /\ (declined # {} /\ err = "none" /\ ret # "raised") => ret = "0"

\* sync returned 0 after the operator declined every candidate.
C14_Witness ==
    /\ pc = "returned"
    /\ ret = "0"
    /\ Candidates # {}
    /\ declined = Candidates

\* C16: for a PREPEND_SOURCE_STATEMENT file with a state entry, a matching
\* hash and an existing target, _validate_exclude does not raise, and it
\* reports the file as needing sync, for the reason that the target does not
\* meet the expected condition, whenever the target's second line is not the
\* directive, a target of fewer than two lines included.
C16_DetectorDecides ==
    (pc # "start" /\ pc # "ready" /\ home = home0) =>
        \A f \in DOMAIN configs :
            (/\ Policy(f) = PREPEND_SOURCE_STATEMENT
             /\ ~ExcludedByPattern(f)
             /\ f \in DOMAIN mem0
             /\ mem0[f].hash = _compute_file_hash(configs[f])
             /\ f \in DOMAIN home0) =>
                LET r == _validate_exclude(f, mem0, now) IN
                /\ ~r.raised
                /\ ~ExpectedCondition(f, home0[f]) =>
                      /\ ~r.ret
                      /\ r.state[f] = Entry(mem0[f].hash, now, REASON_CONDITION)

\* C17: with force set no prompt is requested and no candidate is skipped;
\* without force a prompt is requested only for a candidate whose merge
\* writes its target.
C17_PromptOnlyWhenNeeded ==
    /\ force => (prompted = {} /\ declined = {})
    /\ (force /\ pc \in {"promoting", "persist"}) => \A f \in Candidates : synced[f]
    /\ \A f \in prompted : ~force /\ Merged(f).write

\* C18: while sync stages, every candidate's live target is as it was before
\* the call, and no staging path that was written is the live target path of
\* a candidate of the batch.
C18_StagingLeavesTargets ==
    InStagingPhase =>
        /\ TargetsUnchanged
        /\ \A f \in staged : \A g \in Candidates : TmpTarget(f) # g

\* C13: once a run has appended a source onto an existing target, the Change
\* Detector of every later run flags the file, for the reason that the target
\* does not meet the expected condition, and a later forced run appends the
\* source's text again; a file is reported up to date under APPEND only when
\* its target is byte-identical to the source.
C13_AppendResynced ==
    /\ Detected =>
          \A f \in hist.appended :
              /\ f \in Candidates
              /\ flagged[f] = Entry(_compute_file_hash(configs[f]), now, REASON_CONDITION)
    /\ (pc = "returned" /\ ret = "0" /\ force) =>
          \A f \in hist.appended :
              /\ f \in DOMAIN home
              /\ home[f] = home0[f] \o <<NL, NL>> \o ReadText(configs[f])
    /\ Detected =>
          \A f \in DOMAIN configs :
              (Policy(f) = APPEND /\ ~ExcludedByPattern(f) /\ f \notin Candidates) =>
                  (f \in DOMAIN home0 /\ home0[f] = configs[f])

\* A file that an earlier run had appended onto its target was flagged again
\* and a forced run appended it once more.
C13_Witness ==
    /\ pc = "returned" /\ ret = "0" /\ force
    /\ \E f \in hist.appended :
          /\ Appended(f)
          /\ flagged[f].reason = REASON_CONDITION
          /\ home[f] = home0[f] \o <<NL, NL>> \o ReadText(configs[f])

\* C15: when a run is killed in its promotion loop the state file is what it
\* was before the run; get_syncing_files of the next run returns every file
\* of the killed run's batch that it had not promoted; and after two later
\* runs that staged every candidate and returned 0, none of these files is
\* flagged any more.
C15_SelfHealing ==
    /\ pc = "killed" => disk_state = disk0
    /\ (Detected /\ hist.last = "killed") => hist.killed \subseteq Candidates
    /\ (Detected /\ hist.healed = 2) => hist.killed \cap Candidates = {}

\* C19: after a successful sync the target of a candidate that was staged
\* holds the content staged for it in this run, and the target of a
\* candidate that was declined or whose merge wrote nothing is as it was
\* before the call, whatever lay at its staging path.
C19_PromoteOnlyStaged ==
    (pc = "returned" /\ ret = "0") =>
        \A f \in Candidates :
            IF f \in staged
            THEN f \in DOMAIN home /\ home[f] = Merged(f).bytes
            ELSE SameAt(home, home0, f)

=============================================================================
